---- MODULE Spec2Model ----
(***************************************************************************)
(* A model of god.c: the Universe ("World State") record and its heap      *)
(* blocks, the entity registry (createConsciousEntity), the transition     *)
(* engine (divineMiracle, divinePrayerResponse, divineCompletion) and      *)
(* freeUniverse, over an explicit heap with malloc / realloc / free.       *)
(*                                                                         *)
(* A C double that the code stores (entropyLevel, maxEntropy, the matter /  *)
(* energy / spacetime cells) is an exact rational [n, d] in lowest terms;   *)
(* calculateEndOfWorld computes in rounded floating point with infinities   *)
(* and NaN.  A C string is a sequence of one-character strings.             *)
(*                                                                         *)
(* Spec is a caller that applies the operations in any order, PureSpec     *)
(* calls calculateEndOfWorld and divinePhysicalConstants on chosen inputs, *)
(* MainSpec is main.                                                       *)
(***************************************************************************)
EXTENDS Integers, Sequences, FiniteSets, TLC

(* ------------------------------ bounds -------------------------------- *)

\* universes the caller holds at one time
MaxUniverses == 2
\* entities appended to one universe
MaxEntities == 2
\* petitions answered along one chain of universes (lifespan + 1 each)
MaxPetitions == 1
\* a transition is applied to universes whose entropy has at most this
\* many decimal digits below the initial three (0.618)
MaxEntropyDigits == 1
\* readings of the wall clock at creation: 0..MaxTime
MaxTime == 0
\* bits of a long in the model (two's complement); the platform has 64
LongBits == 24
\* bits of the significand of a double in the calculator's arithmetic; the
\* platform has 53, fewer than a long has value bits
SigBits == 13
\* counts passed to divinePhysicalConstants on its own: -2..MaxConstants
MaxConstants == 6

(* ------------------------- program constants -------------------------- *)

NULL == 0
MAX_NAME_LENGTH == 256
MAX_PRAYER_LENGTH == 1024
NUM_CONSTANTS == 30
INITIAL_LIFESPAN_DAYS == 5000 * 365

\* blocks of one universe: the struct, physicalConstants, spacetime,
\* matter, energy, the entity array, and four blocks per entity
BlocksPerUniverse == 6 + 4 * MaxEntities
\* blocks of main at its fullest: God (6), the prayer, three universes of
\* five blocks, one entity array, and two entities of four blocks
MainBlocks == 6 + 1 + 3 * 5 + 1 + 2 * 4
\* the universes the caller holds, or main, and one block more, for realloc
\* to move a full entity array
MaxAddr ==
    IF MainBlocks > MaxUniverses * BlocksPerUniverse
    THEN MainBlocks + 1 ELSE MaxUniverses * BlocksPerUniverse + 1
Addr == 1..MaxAddr

(* ------------------------------ doubles ------------------------------- *)

RECURSIVE GCD(_, _)
GCD(a, b) == IF b = 0 THEN a ELSE GCD(b, a % b)

Abs(x) == IF x < 0 THEN -x ELSE x

\* the rational n/d in lowest terms, d > 0
Rat(n, d) ==
    LET g == GCD(Abs(n), Abs(d))
        s == IF d < 0 THEN -1 ELSE 1
    IN  [n |-> s * (n \div g), d |-> s * (d \div g)]

RatMul(x, y) == Rat(x.n * y.n, x.d * y.d)

Zero == Rat(0, 1)
One == Rat(1, 1)
\* the literals 0.9, 0.99 and 0.618
MiracleFactor == Rat(9, 10)
GuidanceFactor == Rat(99, 100)
InitialEntropy == Rat(618, 1000)

RECURSIVE Pow10(_)
Pow10(k) == IF k = 0 THEN 1 ELSE 10 * Pow10(k - 1)

\* An element of the constant table: (hi * 10^6 + lo) * 10^exp / den.
Dec(hi, lo, exp, den) == [hi |-> hi, lo |-> lo, exp |-> exp, den |-> den]

\* (mutant) the loop of lines 429-431 stores 1.0 / i
divinePhysicalConstantsTableShifted(n) ==
    [i \in 1..n |->
        CASE i = 1 -> Dec(299, 792458, 0, 1)
          [] i = 2 -> Dec(662, 607015, -42, 1)
          [] i = 3 -> Dec(0, 667430, -16, 1)
          [] i = 4 -> Dec(88541, 878128, -22, 1)
          [] OTHER -> Dec(0, 1, 0, i - 1)]

\* divinePhysicalConstants: NULL for n <= 0, else the table of n constants
divinePhysicalConstantsTable(n) ==
    [i \in 1..n |->
        CASE i = 1 -> Dec(299, 792458, 0, 1)          \* 299792458.0
          [] i = 2 -> Dec(662, 607015, -42, 1)        \* 6.62607015e-34
          [] i = 3 -> Dec(0, 667430, -16, 1)          \* 6.67430e-11
          [] i = 4 -> Dec(88541, 878128, -22, 1)      \* 8.8541878128e-12
          [] OTHER -> Dec(0, 1, 0, i)]                \* 1.0 / (i + 1), i zero-based

(* ------------------------------ strings ------------------------------- *)

\* a char* argument: NULL, or a pointer to the characters s
NullStr == [null |-> TRUE, s |-> <<>>]
Str(s) == [null |-> FALSE, s |-> s]

strlen(s) == Len(s)

\* strstr(hay, needle) != NULL
strstrFound(hay, needle) ==
    \E i \in 0..(Len(hay) - Len(needle)) :
        \A j \in 1..Len(needle) : hay[i + j] = needle[j]

GuideMe == <<"g", "u", "i", "d", "e", " ", "m", "e">>

(* ------------------------------- heap --------------------------------- *)

\* A machine state m is [mem, err]: mem maps every address to the block
\* allocated there (or FreeBlock), err records that free() was handed a
\* pointer to no allocated block (a double or invalid free).

FreeBlock == [kind |-> "free"]

Live(mem, a) == a \in Addr /\ mem[a].kind # "free"

LiveAddrs(mem) == {a \in Addr : mem[a].kind # "free"}

Lowest(S) == CHOOSE a \in S : \A b \in S : a <= b

\* malloc: NULL when the allocation fails (ok = FALSE, or the heap is
\* exhausted), else a block that was not allocated, holding blk
malloc(m, ok, blk) ==
    LET avail == Addr \ LiveAddrs(m.mem)
    IN  IF ~ok \/ avail = {}
        THEN [m |-> m, p |-> NULL]
        ELSE [m |-> [m EXCEPT !.mem[Lowest(avail)] = blk], p |-> Lowest(avail)]

\* free: nothing for NULL, releases an allocated block, and is an error on
\* anything else
free(m, p) ==
    IF p = NULL THEN m
    ELSE IF Live(m.mem, p) THEN [m EXCEPT !.mem[p] = FreeBlock]
    ELSE [m EXCEPT !.err = TRUE]

\* realloc of a pointer array to n slots: NULL and the old block untouched on
\* failure; otherwise the old contents, one uninitialised slot more, either
\* in place or in a new block with the old one released
realloc(m, p, n, ok, move) ==
    LET old == IF p = NULL THEN <<>> ELSE m.mem[p].data
        blk == [kind |-> "ptrs", data |-> [i \in 1..n |-> IF i <= Len(old) THEN old[i] ELSE NULL]]
    IN  IF ~ok THEN [m |-> m, p |-> NULL]
        ELSE IF p # NULL /\ ~move
             THEN [m |-> [m EXCEPT !.mem[p] = blk], p |-> p]
             ELSE LET a == malloc(m, TRUE, blk)
                  IN  IF a.p = NULL THEN [m |-> m, p |-> NULL]
                      ELSE [m |-> free(a.m, p), p |-> a.p]

\* *(a).f = v
Store(m, a, f, v) == [m EXCEPT !.mem[a][f] = v]

Doubles(xs) == [kind |-> "doubles", data |-> xs]
Chars(s) == [kind |-> "chars", data |-> s]

UninitInt == -1
UninitDouble == [n |-> -1, d |-> 1]

\* malloc(sizeof(Universe)) followed by the five pointer fields set to NULL
UniverseBlock ==
    [kind |-> "Universe",
     physicalConstants |-> NULL, numConstants |-> UninitInt,
     matter |-> NULL, energy |-> NULL, spacetime |-> NULL,
     consciousEntities |-> NULL, numEntities |-> UninitInt,
     evolve |-> "uninit",
     creationTime |-> UninitInt, totalLifespanDays |-> UninitInt,
     entropyLevel |-> UninitDouble, maxEntropy |-> UninitDouble]

\* malloc(sizeof(ConsciousEntity)) followed by the three pointer fields set
\* to NULL
EntityBlock ==
    [kind |-> "Entity", consciousness |-> NULL, freeWill |-> NULL,
     name |-> NULL, uniqueId |-> UninitInt]

Return(m, p) == [m |-> m, ret |-> p]

\* F applied to the value of v, computed once
Bind(v, F(_)) == CHOOSE r \in {F(x) : x \in {v}} : TRUE

(* --------------------------- divineMiracle ---------------------------- *)

\* (mutant) the pointer is copied instead of the block
CopyDoublesShallow(m, from, ok) == [m |-> m, p |-> IF ok THEN from ELSE NULL]

\* malloc + memcpy of a block of doubles: a new block holding the source
\* block's contents
CopyDoubles(m, from, ok) == malloc(m, ok, Doubles(m.mem[from].data))

\* the partial rollbacks of the four failure branches
RollbackConstants(m, nu) == free(m, nu)

RollbackSpacetime(m, nu) == free(free(m, m.mem[nu].physicalConstants), nu)

RollbackMatter(m, nu) ==
    free(free(free(m, m.mem[nu].spacetime), m.mem[nu].physicalConstants), nu)

\* (mutant) the energy branch forgets the matter block
RollbackEnergyLeaky(m, nu) ==
    free(free(free(m, m.mem[nu].spacetime), m.mem[nu].physicalConstants), nu)

RollbackEnergy(m, nu) ==
    free(free(free(free(m, m.mem[nu].matter), m.mem[nu].spacetime),
              m.mem[nu].physicalConstants), nu)

\* (mutant) the entity count and the pointer to the array are copied too
CopyPropertiesWithEntities(m, nu, src) ==
    [m EXCEPT
        !.mem[nu].evolve = src.evolve,
        !.mem[nu].creationTime = src.creationTime,
        !.mem[nu].totalLifespanDays = src.totalLifespanDays,
        !.mem[nu].entropyLevel = src.entropyLevel,
        !.mem[nu].maxEntropy = src.maxEntropy,
        !.mem[nu].numEntities = src.numEntities,
        !.mem[nu].consciousEntities = src.consciousEntities]

\* "Copy other universe properties" and "don't copy" the entities
CopyProperties(m, nu, src) ==
    [m EXCEPT
        !.mem[nu].evolve = src.evolve,
        !.mem[nu].creationTime = src.creationTime,
        !.mem[nu].totalLifespanDays = src.totalLifespanDays,
        !.mem[nu].entropyLevel = src.entropyLevel,
        !.mem[nu].maxEntropy = src.maxEntropy,
        !.mem[nu].numEntities = 0,
        !.mem[nu].consciousEntities = NULL]

\* (mutant) reduced to 10% instead of by 10%
ReduceEntropyToTenth(e) == RatMul(e, Rat(1, 10))

\* (mutant) raised by 10% instead of reduced
ReduceEntropyRaised(e) == RatMul(e, Rat(11, 10))

\* newUniverse->entropyLevel *= 0.9
ReduceEntropy(e) == RatMul(e, MiracleFactor)

\* failAt = k makes the k-th allocation of the call fail (0: none fails)
divineMiracle(m, u, failAt) ==
    IF u = NULL THEN Return(m, NULL)
    ELSE
    LET src == m.mem[u]
        a1 == malloc(m, failAt # 1, UniverseBlock)
        nu == a1.p
    IN  IF nu = NULL THEN Return(a1.m, NULL)
    ELSE
    LET m1 == Store(a1.m, nu, "numConstants", src.numConstants)
        a2 == CopyDoubles(m1, src.physicalConstants, failAt # 2)
        m2 == Store(a2.m, nu, "physicalConstants", a2.p)
    IN  IF a2.p = NULL THEN Return(RollbackConstants(m2, nu), NULL)
    ELSE
    LET a3 == CopyDoubles(m2, src.spacetime, failAt # 3)
        m3 == Store(a3.m, nu, "spacetime", a3.p)
    IN  IF a3.p = NULL THEN Return(RollbackSpacetime(m3, nu), NULL)
    ELSE
    LET a4 == CopyDoubles(m3, src.matter, failAt # 4)
        m4 == Store(a4.m, nu, "matter", a4.p)
    IN  IF a4.p = NULL THEN Return(RollbackMatter(m4, nu), NULL)
    ELSE
    LET a5 == CopyDoubles(m4, src.energy, failAt # 5)
        m5 == Store(a5.m, nu, "energy", a5.p)
    IN  IF a5.p = NULL THEN Return(RollbackEnergy(m5, nu), NULL)
    ELSE
    LET m6 == CopyProperties(m5, nu, src)
    IN  Return(Store(m6, nu, "entropyLevel", ReduceEntropy(m6.mem[nu].entropyLevel)), nu)

(* ------------------------ divinePrayerResponse ------------------------ *)

\* (mutant) the pray_er check is missing
PrayerArgsValidNoEntity(pray_er, prayer, u) == ~prayer.null /\ u # NULL

\* the null checks of line 675: pray_er, prayer and u must be non-NULL
PrayerArgsValid(pray_er, prayer, u) ==
    pray_er # NULL /\ ~prayer.null /\ u # NULL

\* newUniverse->totalLifespanDays += 1
ExtendLifespan(days) == days + 1

\* (mutant) the guidance factor is applied to every prayer
GuideEntropyAlways(e, prayer) == RatMul(e, GuidanceFactor)

\* strstr(prayer, "guide me") != NULL: entropyLevel *= 0.99
GuideEntropy(e, prayer) ==
    IF strstrFound(prayer, GuideMe) THEN RatMul(e, GuidanceFactor) ELSE e

divinePrayerResponse(m, pray_er, prayer, u, failAt) ==
    IF ~PrayerArgsValid(pray_er, prayer, u) THEN Return(m, NULL)
    ELSE Bind(divineMiracle(m, u, failAt), LAMBDA r :
         IF r.ret = NULL THEN r
         ELSE Return([r.m EXCEPT
                        !.mem[r.ret].totalLifespanDays = ExtendLifespan(@),
                        !.mem[r.ret].entropyLevel = GuideEntropy(@, prayer.s)],
                     r.ret))

(* -------------------------- divineCompletion -------------------------- *)

\* (mutant) the entropy is left as divineMiracle set it
CompletedEntropyKept(blk) == blk.entropyLevel

\* completedUniverse->entropyLevel = completedUniverse->maxEntropy
CompletedEntropy(blk) == blk.maxEntropy

divineCompletion(m, u, failAt) ==
    IF u = NULL THEN Return(m, NULL)
    ELSE Bind(divineMiracle(m, u, failAt), LAMBDA r :
         IF r.ret = NULL THEN Return(r.m, NULL)
         ELSE Return(Store(r.m, r.ret, "entropyLevel", CompletedEntropy(r.m.mem[r.ret])),
                     r.ret))

(* ------------------------ divineCreateUniverse ------------------------ *)

\* divinePhysicalConstants(numConstants): NULL for numConstants <= 0 or on
\* allocation failure, else a new block holding the table
divinePhysicalConstants(m, numConstants, ok) ==
    IF numConstants <= 0 THEN [m |-> m, p |-> NULL]
    ELSE malloc(m, ok, Doubles(divinePhysicalConstantsTable(numConstants)))

divineCreateUniverse(m, now, failAt) ==
    LET a1 == malloc(m, failAt # 1, UniverseBlock)
        nu == a1.p
    IN  IF nu = NULL THEN Return(a1.m, NULL)
    ELSE
    LET m1 == [a1.m EXCEPT !.mem[nu].numEntities = 0,
                           !.mem[nu].numConstants = NUM_CONSTANTS]
        a2 == divinePhysicalConstants(m1, m1.mem[nu].numConstants, failAt # 2)
        m2 == Store(a2.m, nu, "physicalConstants", a2.p)
    IN  IF a2.p = NULL THEN Return(free(m2, nu), NULL)
    ELSE
    LET a3 == malloc(m2, failAt # 3, Doubles(<<Zero, Zero, Zero, Zero>>))
        m3 == Store(a3.m, nu, "spacetime", a3.p)
    IN  IF a3.p = NULL
        THEN Return(free(free(m3, m3.mem[nu].physicalConstants), nu), NULL)
    ELSE
    LET a4 == malloc(m3, failAt # 4, Doubles(<<One>>))
        m4 == Store(a4.m, nu, "matter", a4.p)
    IN  IF a4.p = NULL
        THEN Return(free(free(free(m4, m4.mem[nu].spacetime),
                               m4.mem[nu].physicalConstants), nu), NULL)
    ELSE
    LET a5 == malloc(m4, failAt # 5, Doubles(<<One>>))
        m5 == Store(a5.m, nu, "energy", a5.p)
    IN  IF a5.p = NULL
        THEN Return(free(free(free(free(m5, m5.mem[nu].matter),
                                    m5.mem[nu].spacetime),
                               m5.mem[nu].physicalConstants), nu), NULL)
    ELSE
    Return([m5 EXCEPT
              !.mem[nu].evolve = "universeEvolveFunction",
              !.mem[nu].creationTime = now,
              !.mem[nu].totalLifespanDays = INITIAL_LIFESPAN_DAYS,
              !.mem[nu].entropyLevel = InitialEntropy,
              !.mem[nu].maxEntropy = One], nu)

(* ----------------------- createConsciousEntity ------------------------ *)

\* (mutant) the length check is > instead of >=
EntityArgsValidOffByOne(creator, u, name) ==
    /\ creator /\ u # NULL /\ ~name.null
    /\ ~(strlen(name.s) > MAX_NAME_LENGTH)

\* the argument checks of lines 454-457
EntityArgsValid(creator, u, name) ==
    /\ creator /\ u # NULL /\ ~name.null
    /\ ~(strlen(name.s) >= MAX_NAME_LENGTH)

\* (mutant) the id is the zero-based position
NextIdZeroBased(blk) == blk.numEntities

\* entity->uniqueId = universe->numEntities + 1
NextId(blk) == blk.numEntities + 1

\* (mutant) the rollback forgets the copy of the name
RollbackEntityLeaky(m, e) ==
    free(free(free(m, m.mem[e].freeWill), m.mem[e].consciousness), e)

\* the rollback when realloc fails
RollbackEntity(m, e) ==
    free(free(free(free(m, m.mem[e].name), m.mem[e].freeWill),
              m.mem[e].consciousness), e)

\* creator: whether the God pointer is non-NULL; move: whether a successful
\* realloc moves the array
createConsciousEntity(m, creator, u, name, failAt, move) ==
    IF ~EntityArgsValid(creator, u, name) THEN Return(m, NULL)
    ELSE
    LET a1 == malloc(m, failAt # 1, EntityBlock)
        e == a1.p
    IN  IF e = NULL THEN Return(a1.m, NULL)
    ELSE
    LET a2 == malloc(a1.m, failAt # 2, Doubles(<<One>>))
        m2 == Store(a2.m, e, "consciousness", a2.p)
    IN  IF a2.p = NULL THEN Return(free(m2, e), NULL)
    ELSE
    LET a3 == malloc(m2, failAt # 3, Doubles(<<One>>))
        m3 == Store(a3.m, e, "freeWill", a3.p)
    IN  IF a3.p = NULL
        THEN Return(free(free(m3, m3.mem[e].consciousness), e), NULL)
    ELSE
    LET a4 == malloc(m3, failAt # 4, Chars(name.s))
        m4 == Store(a4.m, e, "name", a4.p)
    IN  IF a4.p = NULL
        THEN Return(free(free(free(m4, m4.mem[e].freeWill),
                               m4.mem[e].consciousness), e), NULL)
    ELSE
    LET m5 == Store(m4, e, "uniqueId", NextId(m4.mem[u]))
        n == m5.mem[u].numEntities
        a6 == realloc(m5, m5.mem[u].consciousEntities, n + 1, failAt # 5, move)
    IN  IF a6.p = NULL THEN Return(RollbackEntity(a6.m, e), NULL)
    ELSE
    Return([a6.m EXCEPT
              !.mem[u].consciousEntities = a6.p,
              !.mem[a6.p].data[n + 1] = e,
              !.mem[u].numEntities = n + 1], e)

(* ---------------------------- freeUniverse ---------------------------- *)

\* the body of the loop of lines 795-802 for entity pointer e
FreeEntity(m, e) ==
    IF e = NULL THEN m
    ELSE free(free(free(free(m, m.mem[e].consciousness), m.mem[e].freeWill),
                   m.mem[e].name), e)

RECURSIVE FreeEntities(_, _, _)
FreeEntities(m, u, i) ==
    IF i >= m.mem[u].numEntities THEN m
    ELSE FreeEntities(FreeEntity(m, m.mem[m.mem[u].consciousEntities].data[i + 1]), u, i + 1)

freeUniverse(m, u) ==
    IF u = NULL THEN m
    ELSE
    LET m1 == free(free(free(free(m, m.mem[u].physicalConstants), m.mem[u].spacetime),
                        m.mem[u].matter), m.mem[u].energy)
        m2 == FreeEntities(m1, u, 0)
    IN  free(free(m2, m2.mem[u].consciousEntities), u)

(* ------------------------ calculateEndOfWorld ------------------------- *)

\* The calculator's arithmetic is floating point.  A double is NaN, an
\* infinity Inf(s) of sign s, or the finite value m * 2^e with m = 0 or
\* 2^(SigBits-1) <= |m| < 2^SigBits; every operation returns the exact
\* result rounded to the nearest such value, ties to even.  The exponent is
\* not limited, and -0.0 is not told from 0.0.

Pow2(k) == 2^k

\* the number of bits of n, 0 <= n < 2^31
BitLen(n) == Cardinality({k \in 0..30 : Pow2(k) <= n})

LONG_MAX == Pow2(LongBits - 1) - 1
LONG_MIN == -LONG_MAX - 1
SECONDS_PER_DAY == 24 * 60 * 60

NaN == [k |-> "nan", m |-> 0, e |-> 0]
Inf(s) == [k |-> "inf", m |-> s, e |-> 0]
Fin(m, e) == [k |-> "fin", m |-> m, e |-> e]

Sign(x) == IF x.m < 0 THEN -1 ELSE 1

\* n * 2^e, n > 0, plus a fraction of 2^e below it when sticky, rounded
RoundMagnitude(n, e, sticky) ==
    LET s == BitLen(n) - SigBits
    IN  IF s <= 0 THEN Fin(n * Pow2(-s), e + s)
        ELSE LET q == n \div Pow2(s)
                 r == n % Pow2(s)
                 half == Pow2(s - 1)
                 up == r > half \/ (r = half /\ (sticky \/ q % 2 = 1))
                 q1 == IF up THEN q + 1 ELSE q
             IN  IF q1 = Pow2(SigBits) THEN Fin(Pow2(SigBits - 1), e + s + 1)
                 ELSE Fin(q1, e + s)

Round(n, e, sticky) ==
    IF n = 0 THEN Fin(0, 0)
    ELSE IF n > 0 THEN RoundMagnitude(n, e, sticky)
    ELSE [RoundMagnitude(-n, e, sticky) EXCEPT !.m = -@]

\* (double)n of an integer n
FromInt(n) == Round(n, 0, FALSE)

\* (the m of NaN is 0)
DNeg(x) == [x EXCEPT !.m = -@]

fabs(x) == [x EXCEPT !.m = Abs(@)]

\* An operation's operands are values: Bind computes each once.

Sum(x, y) ==
    IF x.k = "nan" \/ y.k = "nan" THEN NaN
    ELSE IF x.k = "inf" THEN (IF y.k = "inf" /\ y.m # x.m THEN NaN ELSE x)
    ELSE IF y.k = "inf" THEN y
    ELSE IF x.m = 0 THEN y
    ELSE IF y.m = 0 THEN x
    ELSE LET hi == IF x.e >= y.e THEN x ELSE y
             lo == IF x.e >= y.e THEN y ELSE x
             d == hi.e - lo.e
         IN  IF d > SigBits + 2 THEN hi
             ELSE Round(hi.m * Pow2(d) + lo.m, lo.e, FALSE)

DAdd(x, y) == Bind(<<x, y>>, LAMBDA a : Sum(a[1], a[2]))

DSub(x, y) == DAdd(x, DNeg(y))

Product(x, y) ==
    IF x.k = "nan" \/ y.k = "nan" THEN NaN
    ELSE IF x.k = "inf" \/ y.k = "inf"
         THEN (IF x.m = 0 \/ y.m = 0 THEN NaN ELSE Inf(Sign(x) * Sign(y)))
    ELSE Round(x.m * y.m, x.e + y.e, FALSE)

DMul(x, y) == Bind(<<x, y>>, LAMBDA a : Product(a[1], a[2]))

\* x / y: a finite x divided by zero is an infinity, 0 / 0 is NaN
Quotient(x, y) ==
    IF x.k = "nan" \/ y.k = "nan" THEN NaN
    ELSE IF x.k = "inf" THEN (IF y.k = "inf" THEN NaN ELSE Inf(Sign(x) * Sign(y)))
    ELSE IF y.k = "inf" THEN Fin(0, 0)
    ELSE IF y.m = 0 THEN (IF x.m = 0 THEN NaN ELSE Inf(Sign(x)))
    ELSE IF x.m = 0 THEN Fin(0, 0)
    ELSE LET n == Abs(x.m) * Pow2(SigBits + 2)
         IN  Round(Sign(x) * Sign(y) * (n \div Abs(y.m)),
                   x.e - y.e - (SigBits + 2), n % Abs(y.m) # 0)

DDiv(x, y) == Bind(<<x, y>>, LAMBDA a : Quotient(a[1], a[2]))

\* x < y, for values x and y that are not NaN
DLess(x, y) == x # y /\ Sum(x, DNeg(y)).m < 0

\* fmax and fmin return the other argument when one is NaN
Larger(x, y) ==
    IF x.k = "nan" THEN y ELSE IF y.k = "nan" THEN x
    ELSE IF DLess(x, y) THEN y ELSE x

fmax(x, y) == Bind(<<x, y>>, LAMBDA a : Larger(a[1], a[2]))

Smaller(x, y) ==
    IF x.k = "nan" THEN y ELSE IF y.k = "nan" THEN x
    ELSE IF DLess(y, x) THEN y ELSE x

fmin(x, y) == Bind(<<x, y>>, LAMBDA a : Smaller(a[1], a[2]))

RECURSIVE Pow2Mod(_, _)
Pow2Mod(k, n) == IF k = 0 THEN 1 % n ELSE (2 * Pow2Mod(k - 1, n)) % n

\* fmod(x, (double)n) for an integer n > 0: exact, with the sign of x
Remainder(x, n) ==
    IF x.k # "fin" THEN NaN
    ELSE IF DLess(fabs(x), FromInt(n)) THEN x
    ELSE IF x.e >= 0
         THEN Round(Sign(x) * ((Abs(x.m) * Pow2Mod(x.e, n)) % n), 0, FALSE)
    ELSE Round(Sign(x) * (Abs(x.m) % (n * Pow2(-x.e))), x.e, FALSE)

fmod(x, n) == Bind(x, LAMBDA a : Remainder(a, n))

\* the double nearest to the stored rational r
FromRat(r) == DDiv(FromInt(r.n), FromInt(r.d))

\* 10^k as a double, k >= 0
RECURSIVE DPow10(_)
DPow10(k) ==
    IF k = 0 THEN FromInt(1)
    ELSE IF k % 2 = 1 THEN DMul(FromInt(10), DPow10(k - 1))
    ELSE Bind(DPow10(k \div 2), LAMBDA h : Product(h, h))

\* x * 10^k
Scale10(x, k) == IF k >= 0 THEN DMul(x, DPow10(k)) ELSE DDiv(x, DPow10(-k))

\* the double of an element of the constant table
FromDec(c) ==
    DDiv(Scale10(DAdd(DMul(FromInt(c.hi), FromInt(1000000)), FromInt(c.lo)), c.exp),
         FromInt(c.den))

\* (long)x: x truncated toward zero when that is a long.  Otherwise the
\* conversion is undefined; what the instruction that carries it out leaves
\* is LONG_MIN (cvttsd2si) or the saturated value (fcvtzs: LONG_MAX,
\* LONG_MIN, and 0 for NaN).
LongCastOutcomes(x) ==
    IF x.k = "nan" THEN {LONG_MIN, 0}
    ELSE IF x.k = "inf" THEN (IF x.m > 0 THEN {LONG_MIN, LONG_MAX} ELSE {LONG_MIN})
    ELSE IF x.m = 0 THEN {0}
    ELSE IF x.e < 0
         THEN {IF -x.e >= SigBits THEN 0 ELSE Sign(x) * (Abs(x.m) \div Pow2(-x.e))}
    ELSE IF BitLen(Abs(x.m)) + x.e <= LongBits - 1 THEN {x.m * Pow2(x.e)}
    ELSE IF x.m = -Pow2(SigBits - 1) /\ SigBits + x.e = LongBits THEN {LONG_MIN}
    ELSE IF x.m > 0 THEN {LONG_MIN, LONG_MAX}
    ELSE {LONG_MIN}

LongCast(x) == Bind(x, LAMBDA a : LongCastOutcomes(a))

\* the literal 0.12345
ESCHATOLOGICAL_CONSTANT == FromRat(Rat(12345, 100000))

\* lines 237-238
NormalizedConstant(c) == DDiv(c, DAdd(fabs(c), FromInt(1)))

\* the loop of lines 235-240 from index i on, cs the block's contents
RECURSIVE PhysicalLoop(_, _, _, _)
PhysicalLoop(cs, numConstants, i, physicalInfluence) ==
    IF i < numConstants /\ i < 10
    THEN PhysicalLoop(cs, numConstants, i + 1,
                      DAdd(physicalInfluence,
                           DDiv(NormalizedConstant(FromDec(cs[i + 1])), FromInt(i + 1))))
    ELSE physicalInfluence

PhysicalInfluence(cs, numConstants) ==
    fmod(fabs(PhysicalLoop(cs, numConstants, 0, Fin(0, 0))), 100)

\* lines 246-247
ConsciousnessInfluence(numEntities) ==
    fmin(FromInt(1000), DMul(FromInt(numEntities), ESCHATOLOGICAL_CONSTANT))

\* (mutant) the entropy ratio is taken as 0 when maxEntropy is 0
EntropyRatioGuarded(entropyLevel, maxEntropy) ==
    IF maxEntropy.n = 0 THEN Fin(0, 0)
    ELSE DDiv(FromRat(entropyLevel), FromRat(maxEntropy))

\* line 225
EntropyRatio(entropyLevel, maxEntropy) ==
    DDiv(FromRat(entropyLevel), FromRat(maxEntropy))

\* (mutant) the physical term is added instead of subtracted
FinalDaysPhysicalAdded(daysRemaining, entropyRatio, physicalInfluence, consciousnessInfluence) ==
    fmax(Fin(0, 0),
         DAdd(DAdd(DMul(daysRemaining, DSub(FromInt(1), entropyRatio)),
                   DMul(physicalInfluence, entropyRatio)),
              consciousnessInfluence))

\* lines 251-253
FinalDays(daysRemaining, entropyRatio, physicalInfluence, consciousnessInfluence) ==
    fmax(Fin(0, 0),
         DAdd(DSub(DMul(daysRemaining, DSub(FromInt(1), entropyRatio)),
                   DMul(physicalInfluence, entropyRatio)),
              consciousnessInfluence))

\* calculateEndOfWorld(universe) at clock reading currentTime: the values
\* the call can return
calculateEndOfWorld(h, universe, currentTime) ==
    IF universe = NULL THEN {-1}
    ELSE
    LET timeElapsedSeconds == FromInt(currentTime - h[universe].creationTime)
        daysSinceCreation == DDiv(timeElapsedSeconds, FromInt(SECONDS_PER_DAY))
        entropyRatio == EntropyRatio(h[universe].entropyLevel, h[universe].maxEntropy)
        daysRemaining ==
            fmax(Fin(0, 0),
                 DSub(FromInt(h[universe].totalLifespanDays), daysSinceCreation))
        physicalInfluence ==
            IF h[universe].numConstants > 0
            THEN PhysicalInfluence(h[h[universe].physicalConstants].data,
                                   h[universe].numConstants)
            ELSE PhysicalInfluence(<<>>, 0)
        consciousnessInfluence == ConsciousnessInfluence(h[universe].numEntities)
    IN  LongCast(fmin(FromInt(LONG_MAX),
                      FinalDays(daysRemaining, entropyRatio, physicalInfluence,
                                consciousnessInfluence)))

(* ------------------- createGod, freeGod, formPrayer -------------------- *)

\* malloc(sizeof(God)): the five pointer fields are not yet set
GodBlock ==
    [kind |-> "God", transcendence |-> NULL, person1 |-> NULL, person2 |-> NULL,
     person3 |-> NULL, incompletenessAspect |-> NULL]

\* malloc(1)
ByteBlock == [kind |-> "byte"]

\* g->field = malloc(1)
AllocateByte(m, g, field, ok) ==
    Bind(malloc(m, ok, ByteBlock), LAMBDA a :
        [m |-> Store(a.m, g, field, a.p), p |-> a.p])

\* createGod: six allocations, the failure of the failAt-th releases the
\* earlier ones
createGod(m, failAt) ==
    Bind(malloc(m, failAt # 1, GodBlock), LAMBDA a1 :
    IF a1.p = NULL THEN Return(a1.m, NULL)
    ELSE
    Bind(AllocateByte(a1.m, a1.p, "transcendence", failAt # 2), LAMBDA a2 :
    IF a2.p = NULL THEN Return(free(a2.m, a1.p), NULL)
    ELSE
    Bind(AllocateByte(a2.m, a1.p, "person1", failAt # 3), LAMBDA a3 :
    IF a3.p = NULL
    THEN Return(free(free(a3.m, a3.m.mem[a1.p].transcendence), a1.p), NULL)
    ELSE
    Bind(AllocateByte(a3.m, a1.p, "person2", failAt # 4), LAMBDA a4 :
    IF a4.p = NULL
    THEN Return(free(free(free(a4.m, a4.m.mem[a1.p].person1),
                           a4.m.mem[a1.p].transcendence), a1.p), NULL)
    ELSE
    Bind(AllocateByte(a4.m, a1.p, "person3", failAt # 5), LAMBDA a5 :
    IF a5.p = NULL
    THEN Return(free(free(free(free(a5.m, a5.m.mem[a1.p].person2),
                                a5.m.mem[a1.p].person1),
                           a5.m.mem[a1.p].transcendence), a1.p), NULL)
    ELSE
    Bind(AllocateByte(a5.m, a1.p, "incompletenessAspect", failAt # 6), LAMBDA a6 :
    IF a6.p = NULL
    THEN Return(free(free(free(free(free(a6.m, a6.m.mem[a1.p].person3),
                                     a6.m.mem[a1.p].person2),
                                a6.m.mem[a1.p].person1),
                           a6.m.mem[a1.p].transcendence), a1.p), NULL)
    ELSE Return(a6.m, a1.p)))))))

freeGod(m, g) ==
    IF g = NULL THEN m
    ELSE free(free(free(free(free(free(m, m.mem[g].transcendence), m.mem[g].person1),
                             m.mem[g].person2), m.mem[g].person3),
                   m.mem[g].incompletenessAspect), g)

\* what snprintf writes for "Prayer from %s: Please guide me."
PrayerText(name) ==
    <<"P", "r", "a", "y", "e", "r", " ", "f", "r", "o", "m", " ">> \o name
    \o <<":", " ", "P", "l", "e", "a", "s", "e", " ", "g", "u", "i", "d", "e", " ",
         "m", "e", ".">>

\* formPrayer: NULL for a NULL entity, on allocation failure, and (the
\* buffer released) when the text does not fit the buffer
formPrayer(m, entity, ok) ==
    IF entity = NULL THEN Return(m, NULL)
    ELSE
    LET a == malloc(m, ok, Chars(<<>>))
        text == PrayerText(m.mem[m.mem[entity].name].data)
    IN  IF a.p = NULL THEN Return(a.m, NULL)
        ELSE IF Len(text) >= MAX_PRAYER_LENGTH THEN Return(free(a.m, a.p), NULL)
        ELSE Return([a.m EXCEPT !.mem[a.p].data = text], a.p)

(* --------------------------- the caller ------------------------------- *)

VARIABLES
    mem,        \* the heap: address -> block
    err,        \* free() was handed a pointer to no allocated block
    universes,  \* the Universe pointers the caller holds
    last,       \* the call that has just returned: operation, arguments, result
    pre,        \* the heap as it was when that call was made
    frame       \* main's locals and position, when main is the caller

vars == <<mem, err, universes, last, pre, frame>>

Machine == [mem |-> mem, err |-> err]

NameOfLen(n) == [i \in 1..n |-> "x"]
Human1 == <<"H", "u", "m", "a", "n", "1">>
PleaseGuideMe ==
    <<"P", "l", "e", "a", "s", "e", " ", "g", "u", "i", "d", "e", " ", "m", "e", ".">>
GuideMeCapital == <<"G", "u", "i", "d", "e", " ", "m", "e">>

\* the names and prayers the caller passes
NameInputs ==
    {NullStr, Str(<<>>), Str(Human1),
     Str(NameOfLen(MAX_NAME_LENGTH)), Str(NameOfLen(300))}

PrayerInputs ==
    {NullStr, Str(<<>>), Str(PleaseGuideMe), Str(GuideMeCapital)}

Times == 0..MaxTime

\* the entity pointers stored in universe u's array
EntitiesOf(h, u) ==
    IF h[u].consciousEntities = NULL THEN <<>>
    ELSE SubSeq(h[h[u].consciousEntities].data, 1, h[u].numEntities)

Range(f) == {f[i] : i \in DOMAIN f}

\* the blocks universe u owns: the struct, its four data blocks, the entity
\* array and, for every entity, the struct and its three blocks
NonNull(ps) == SelectSeq(ps, LAMBDA p : p # NULL)

EntityBlocks(h, e) == NonNull(<<e, h[e].consciousness, h[e].freeWill, h[e].name>>)

RECURSIVE EntitiesBlocks(_, _)
EntitiesBlocks(h, es) ==
    IF es = <<>> THEN <<>> ELSE EntityBlocks(h, Head(es)) \o EntitiesBlocks(h, Tail(es))

BlocksOf(h, u) ==
    NonNull(<<u, h[u].physicalConstants, h[u].spacetime, h[u].matter, h[u].energy,
              h[u].consciousEntities>>)
    \o EntitiesBlocks(h, EntitiesOf(h, u))

EntropyFits(e) == e.d <= InitialEntropy.d * Pow10(MaxEntropyDigits)

\* a transition from u is explored when there is room for its result
CanDerive(u) ==
    IF u = NULL THEN TRUE
    ELSE Cardinality(universes) < MaxUniverses /\ EntropyFits(mem[u].entropyLevel)

\* str is the char* argument (name or prayer), ent the pray_er pointer,
\* creator whether the God pointer is non-NULL
Call(op, u, ret, failAt, str, ent, creator) ==
    [op |-> op, u |-> u, ret |-> ret, failAt |-> failAt, str |-> str, ent |-> ent,
     creator |-> creator]

NoCall == Call("none", NULL, NULL, 0, NullStr, NULL, FALSE)

Idle == last.op = "none"

\* the call returned r = [m, ret]; a returned universe is kept by the caller
Returned(r, keep) ==
    /\ mem' = r.m.mem
    /\ err' = r.m.err
    /\ pre' = mem
    /\ universes' = IF keep /\ r.ret # NULL THEN universes \cup {r.ret} ELSE universes
    /\ UNCHANGED frame

\* main before its first statement
InitialFrame ==
    [pc |-> "createGod", status |-> 0, omega |-> NULL, universe |-> NULL,
     human1 |-> NULL, human2 |-> NULL, prayer |-> NULL, updatedUniverse |-> NULL,
     completedUniverse |-> NULL, daysRemaining |-> 0, cleanup |-> <<>>,
     released |-> <<>>]

Init ==
    /\ mem = [a \in Addr |-> FreeBlock]
    /\ err = FALSE
    /\ universes = {}
    /\ last = NoCall
    /\ pre = [a \in Addr |-> FreeBlock]
    /\ frame = InitialFrame

CreateUniverse ==
    \E now \in Times, failAt \in 0..5 :
        /\ Idle
        /\ Cardinality(universes) < MaxUniverses
        /\ \E r \in {divineCreateUniverse(Machine, now, failAt)} :
               /\ Returned(r, TRUE)
               /\ last' = Call("divineCreateUniverse", NULL, r.ret, failAt, NullStr, NULL, FALSE)

\* an allocation fails, and realloc moves the array, only in calls that get
\* as far as allocating
CreateEntity ==
    \E creator \in BOOLEAN, u \in universes \cup {NULL}, name \in NameInputs,
       failAt \in 0..5, move \in BOOLEAN :
        /\ Idle
        /\ IF u = NULL THEN TRUE ELSE mem[u].numEntities < MaxEntities
        /\ ~EntityArgsValid(creator, u, name) => failAt = 0
        /\ move => /\ EntityArgsValid(creator, u, name)
                   /\ failAt = 0
                   /\ mem[u].consciousEntities # NULL
        /\ \E r \in {createConsciousEntity(Machine, creator, u, name, failAt, move)} :
               /\ Returned(r, FALSE)
               /\ last' = Call("createConsciousEntity", u, r.ret, failAt, name,
                               NULL, creator)

Miracle ==
    \E u \in universes \cup {NULL}, failAt \in 0..5 :
        /\ Idle
        /\ CanDerive(u)
        /\ u = NULL => failAt = 0
        /\ \E r \in {divineMiracle(Machine, u, failAt)} :
               /\ Returned(r, TRUE)
               /\ last' = Call("divineMiracle", u, r.ret, failAt, NullStr, NULL, FALSE)

\* pray_er is NULL or one of the entities of a universe the caller holds
PrayerResponse ==
    \E u \in universes \cup {NULL}, w \in universes, prayer \in PrayerInputs,
       failAt \in 0..5 :
    \E pray_er \in Range(EntitiesOf(mem, w)) \cup {NULL} :
        /\ Idle
        /\ CanDerive(u)
        /\ IF u = NULL THEN TRUE
           ELSE mem[u].totalLifespanDays < INITIAL_LIFESPAN_DAYS + MaxPetitions
        /\ ~PrayerArgsValid(pray_er, prayer, u) => failAt = 0
        /\ \E r \in {divinePrayerResponse(Machine, pray_er, prayer, u, failAt)} :
               /\ Returned(r, TRUE)
               /\ last' = Call("divinePrayerResponse", u, r.ret, failAt, prayer, pray_er, FALSE)

Completion ==
    \E u \in universes \cup {NULL}, failAt \in 0..5 :
        /\ Idle
        /\ CanDerive(u)
        /\ u = NULL => failAt = 0
        /\ \E r \in {divineCompletion(Machine, u, failAt)} :
               /\ Returned(r, TRUE)
               /\ last' = Call("divineCompletion", u, r.ret, failAt, NullStr, NULL, FALSE)

FreeUniverse ==
    \E u \in universes \cup {NULL} :
        /\ Idle
        /\ LET m == freeUniverse(Machine, u)
           IN  /\ mem' = m.mem
               /\ err' = m.err
               /\ pre' = mem
               /\ universes' = universes \ {u}
               /\ last' = Call("freeUniverse", u, NULL, 0, NullStr, NULL, FALSE)
               /\ UNCHANGED frame

\* The program never compares, orders or prints a pointer, so a heap and
\* its image under a renaming of addresses behave alike.  Between two calls
\* the model renames the addresses so that the universes the caller holds
\* lie one after the other, each with its blocks in the order of
\* BlocksOf; allocated blocks that no universe reaches keep their contents
\* and follow them.
RECURSIVE SortedSeq(_)
SortedSeq(S) == IF S = {} THEN <<>> ELSE <<Lowest(S)>> \o SortedSeq(S \ {Lowest(S)})

RECURSIVE Flatten(_)
Flatten(ss) == IF ss = <<>> THEN <<>> ELSE Head(ss) \o Flatten(Tail(ss))

CompactOrder(h, us) ==
    LET reached == Flatten([i \in 1..Cardinality(us) |-> BlocksOf(h, SortedSeq(us)[i])])
    IN  reached \o SortedSeq(LiveAddrs(h) \ Range(reached))

Renaming(order) ==
    [a \in Addr \cup {NULL} |->
        IF a \in Range(order) THEN CHOOSE i \in DOMAIN order : order[i] = a ELSE a]

RenameBlock(b, pi) ==
    CASE b.kind = "Universe" ->
            [b EXCEPT !.physicalConstants = pi[@], !.spacetime = pi[@],
                      !.matter = pi[@], !.energy = pi[@],
                      !.consciousEntities = pi[@]]
      [] b.kind = "Entity" ->
            [b EXCEPT !.consciousness = pi[@], !.freeWill = pi[@], !.name = pi[@]]
      [] b.kind = "ptrs" -> [b EXCEPT !.data = [i \in DOMAIN @ |-> pi[@[i]]]]
      [] OTHER -> b

Compact(h, us) ==
    LET order == CompactOrder(h, us)
        pi == Renaming(order)
    IN  [mem |-> [a \in Addr |-> IF a <= Len(order) THEN RenameBlock(h[order[a]], pi)
                                 ELSE FreeBlock],
         universes |-> {pi[u] : u \in us}]

\* the caller has looked at the result of the call and goes on
Resume ==
    /\ ~Idle
    /\ last' = NoCall
    /\ mem' = Compact(mem, universes).mem
    /\ universes' = Compact(mem, universes).universes
    /\ pre' = mem'
    /\ UNCHANGED <<err, frame>>

Next ==
    \/ CreateUniverse
    \/ CreateEntity
    \/ Miracle
    \/ PrayerResponse
    \/ Completion
    \/ FreeUniverse
    \/ Resume

Spec == Init /\ [][Next]_vars

(* ------------------ the two pure functions on their own ---------------- *)

\* calculateEndOfWorld and divinePhysicalConstants called by a caller that
\* holds nothing else: calculateEndOfWorld on a Universe whose public
\* fields the caller has set, divinePhysicalConstants with any count.

LifespanInputs == {-1, 0, 1, INITIAL_LIFESPAN_DAYS, LONG_MAX}

\* <<entropyLevel, maxEntropy>>
EntropyInputs ==
    {Zero, InitialEntropy, One, Rat(2, 1)} \X {Zero, One, Rat(2, 1)}

EntityCountInputs == {0, 1, 10000}

\* constant tables: none, the program's own, ten times -1e306, and 1e306
\* followed by -1e306
HugeConstant == Dec(1, 0, 300, 1)
HugeNegativeConstant == Dec(-1, 0, 300, 1)

ConstantInputs ==
    {<<>>, divinePhysicalConstantsTable(NUM_CONSTANTS),
     [i \in 1..10 |-> HugeNegativeConstant],
     <<HugeConstant, HugeNegativeConstant>>}

\* clock readings, in seconds, at creation and at the call
CreationInputs == {0, SECONDS_PER_DAY}
ClockInputs == {0, 3 * SECONDS_PER_DAY}

\* a Universe from divineCreateUniverse whose fields the caller then sets
UniverseWith(m, creationTime, lifespan, entropy, numEntities, cs) ==
    Bind(divineCreateUniverse(m, creationTime, 0), LAMBDA r :
        Return([r.m EXCEPT
                  !.mem[r.ret].totalLifespanDays = lifespan,
                  !.mem[r.ret].entropyLevel = entropy[1],
                  !.mem[r.ret].maxEntropy = entropy[2],
                  !.mem[r.ret].numEntities = numEntities,
                  !.mem[r.ret].numConstants = Len(cs),
                  !.mem[r.m.mem[r.ret].physicalConstants].data = cs],
               r.ret))

\* the record of a call of one of the two functions
PureCall(op, u, ret, numConstants, currentTime, ok) ==
    [op |-> op, u |-> u, ret |-> ret, numConstants |-> numConstants,
     currentTime |-> currentTime, failAt |-> IF ok THEN 0 ELSE 1]

CalculateEndOfWorld ==
    \E creationTime \in CreationInputs, currentTime \in ClockInputs,
       lifespan \in LifespanInputs, entropy \in EntropyInputs,
       numEntities \in EntityCountInputs, cs \in ConstantInputs :
        /\ Idle
        /\ \E r \in {UniverseWith(Machine, creationTime, lifespan, entropy,
                                  numEntities, cs)} :
               \E ret \in calculateEndOfWorld(r.m.mem, r.ret, currentTime) :
                /\ mem' = r.m.mem
                /\ err' = r.m.err
                /\ pre' = r.m.mem
                /\ universes' = {r.ret}
                /\ last' = PureCall("calculateEndOfWorld", r.ret, ret, 0,
                                    currentTime, TRUE)
                /\ UNCHANGED frame

CalculateEndOfWorldOfNull ==
    \E currentTime \in ClockInputs :
        /\ Idle
        /\ \E ret \in calculateEndOfWorld(mem, NULL, currentTime) :
                last' = PureCall("calculateEndOfWorld", NULL, ret, 0, currentTime, TRUE)
        /\ UNCHANGED <<mem, err, universes, pre, frame>>

PhysicalConstants ==
    \E numConstants \in (-2)..MaxConstants, ok \in BOOLEAN :
        /\ Idle
        /\ numConstants <= 0 => ok
        /\ \E r \in {divinePhysicalConstants(Machine, numConstants, ok)} :
               /\ mem' = r.m.mem
               /\ err' = r.m.err
               /\ last' = PureCall("divinePhysicalConstants", NULL, r.p,
                                   numConstants, 0, ok)
        /\ pre' = mem
        /\ UNCHANGED <<universes, frame>>

\* the caller drops what the call left and starts again
Discard ==
    /\ ~Idle
    /\ mem' = [a \in Addr |-> FreeBlock]
    /\ pre' = mem'
    /\ universes' = {}
    /\ last' = NoCall
    /\ UNCHANGED <<err, frame>>

PureNext ==
    \/ CalculateEndOfWorld
    \/ CalculateEndOfWorldOfNull
    \/ PhysicalConstants
    \/ Discard

PureSpec == Init /\ [][PureNext]_vars

(* -------------------------------- main -------------------------------- *)

\* main, one step per statement that calls into the program.  An early
\* exit is the list of release statements the code runs before its return.

Human2 == <<"H", "u", "m", "a", "n", "2">>

\* lines 851, 866-867, 881-882, 892-894, 913-916 and 923-927
CleanupUniverseFailed == <<"omega">>
CleanupEntitiesFailed == <<"universe", "omega">>
CleanupPrayerFailed == <<"universe", "omega">>
CleanupResponseFailed == <<"prayer", "universe", "omega">>
\* (mutant) the petition result is forgotten when Complete fails
CleanupCompletionFailedLeaky == <<"prayer", "universe", "omega">>
CleanupCompletionFailed == <<"prayer", "updatedUniverse", "universe", "omega">>
CleanupCompleted ==
    <<"prayer", "completedUniverse", "updatedUniverse", "universe", "omega">>

\* the release statements todo, then return status
Leave(f, status, todo) == [f EXCEPT !.pc = "cleanup", !.status = status, !.cleanup = todo]

\* a statement of main has run: the heap is m, main's frame is f
Ran(m, f, call, held) ==
    /\ mem' = m.mem
    /\ err' = m.err
    /\ pre' = mem
    /\ frame' = f
    /\ last' = call
    /\ universes' = held

MainCreateGod ==
    \E failAt \in 0..6 :
        /\ frame.pc = "createGod"
        /\ \E r \in {createGod(Machine, failAt)} :
               Ran(r.m,
                   IF r.ret = NULL THEN [frame EXCEPT !.pc = "exit", !.status = 1]
                   ELSE [frame EXCEPT !.pc = "createUniverse", !.omega = r.ret],
                   Call("createGod", NULL, r.ret, failAt, NullStr, NULL, FALSE),
                   universes)

MainCreateUniverse ==
    \E now \in Times, failAt \in 0..5 :
        /\ frame.pc = "createUniverse"
        /\ \E r \in {divineCreateUniverse(Machine, now, failAt)} :
               Ran(r.m,
                   IF r.ret = NULL THEN Leave(frame, 1, CleanupUniverseFailed)
                   ELSE [frame EXCEPT !.pc = "human1", !.universe = r.ret],
                   Call("divineCreateUniverse", NULL, r.ret, failAt, NullStr, NULL, FALSE),
                   universes \cup ({r.ret} \ {NULL}))

MainHuman1 ==
    \E failAt \in 0..5 :
        /\ frame.pc = "human1"
        /\ \E r \in {createConsciousEntity(Machine, frame.omega # NULL, frame.universe,
                                          Str(Human1), failAt, FALSE)} :
               Ran(r.m, [frame EXCEPT !.pc = "human2", !.human1 = r.ret],
                   Call("createConsciousEntity", frame.universe, r.ret, failAt,
                        Str(Human1), NULL, TRUE),
                   universes)

\* the second append, then the test of line 861
MainHuman2 ==
    \E failAt \in 0..5, move \in BOOLEAN :
        /\ frame.pc = "human2"
        /\ move => failAt = 0 /\ mem[frame.universe].consciousEntities # NULL
        /\ \E r \in {createConsciousEntity(Machine, frame.omega # NULL, frame.universe,
                                          Str(Human2), failAt, move)} :
               Ran(r.m,
                   IF frame.human1 = NULL \/ r.ret = NULL
                   THEN Leave([frame EXCEPT !.human2 = r.ret], 1, CleanupEntitiesFailed)
                   ELSE [frame EXCEPT !.pc = "formPrayer", !.human2 = r.ret],
                   Call("createConsciousEntity", frame.universe, r.ret, failAt,
                        Str(Human2), NULL, TRUE),
                   universes)

MainFormPrayer ==
    \E ok \in BOOLEAN :
        /\ frame.pc = "formPrayer"
        /\ \E r \in {formPrayer(Machine, frame.human1, ok)} :
               Ran(r.m,
                   IF r.ret = NULL THEN Leave(frame, 1, CleanupPrayerFailed)
                   ELSE [frame EXCEPT !.pc = "respondToPrayer", !.prayer = r.ret],
                   Call("formPrayer", NULL, r.ret, IF ok THEN 0 ELSE 1, NullStr,
                        frame.human1, FALSE),
                   universes)

MainRespondToPrayer ==
    \E failAt \in 0..5 :
        /\ frame.pc = "respondToPrayer"
        /\ \E r \in {divinePrayerResponse(Machine, frame.human1,
                                         Str(mem[frame.prayer].data), frame.universe,
                                         failAt)} :
               Ran(r.m,
                   IF r.ret = NULL THEN Leave(frame, 1, CleanupResponseFailed)
                   ELSE [frame EXCEPT !.pc = "daysToEndOfWorld",
                                      !.updatedUniverse = r.ret],
                   Call("divinePrayerResponse", frame.universe, r.ret, failAt,
                        Str(mem[frame.prayer].data), frame.human1, FALSE),
                   universes \cup ({r.ret} \ {NULL}))

\* the clock when main asks for the days: a reading of Times not before the
\* creation, or one a thousand days later
MainClockInputs == Times \cup {1000 * SECONDS_PER_DAY}

MainDaysToEndOfWorld ==
    \E currentTime \in MainClockInputs :
        /\ frame.pc = "daysToEndOfWorld"
        /\ currentTime >= mem[frame.universe].creationTime
        /\ \E ret \in calculateEndOfWorld(mem, frame.universe, currentTime) :
            Ran(Machine,
                [frame EXCEPT !.pc = "completeUniverse", !.daysRemaining = ret],
                Call("calculateEndOfWorld", frame.universe, ret, 0, NullStr, NULL, FALSE),
                universes)

MainCompleteUniverse ==
    \E failAt \in 0..5 :
        /\ frame.pc = "completeUniverse"
        /\ \E r \in {divineCompletion(Machine, frame.universe, failAt)} :
               Ran(r.m,
                   IF r.ret = NULL THEN Leave(frame, 1, CleanupCompletionFailed)
                   ELSE Leave([frame EXCEPT !.completedUniverse = r.ret], 0,
                              CleanupCompleted),
                   Call("divineCompletion", frame.universe, r.ret, failAt, NullStr,
                        NULL, FALSE),
                   universes \cup ({r.ret} \ {NULL}))

\* the next release statement: free(prayer), freeUniverse(...) or
\* freeGod(omega)
Release(m, f, what) ==
    CASE what = "prayer" -> free(m, f.prayer)
      [] what = "omega" -> freeGod(m, f.omega)
      [] OTHER -> freeUniverse(m, f[what])

MainCleanup ==
    /\ frame.pc = "cleanup"
    /\ frame.cleanup # <<>>
    /\ LET what == Head(frame.cleanup)
           isUniverse == what \notin {"prayer", "omega"}
       IN  Ran(Release(Machine, frame, what),
               [frame EXCEPT !.cleanup = Tail(@),
                             !.pc = IF Tail(frame.cleanup) = <<>> THEN "exit" ELSE "cleanup",
                             !.released = IF isUniverse THEN Append(@, frame[what]) ELSE @],
               Call(IF isUniverse THEN "freeUniverse"
                    ELSE IF what = "omega" THEN "freeGod" ELSE "free",
                    IF isUniverse THEN frame[what] ELSE NULL, NULL, 0, NullStr, NULL, FALSE),
               IF isUniverse THEN universes \ {frame[what]} ELSE universes)

MainNext ==
    \/ MainCreateGod
    \/ MainCreateUniverse
    \/ MainHuman1
    \/ MainHuman2
    \/ MainFormPrayer
    \/ MainRespondToPrayer
    \/ MainDaysToEndOfWorld
    \/ MainCompleteUniverse
    \/ MainCleanup

MainSpec == Init /\ [][MainNext]_vars

(* ------------------------------ claims -------------------------------- *)

\* the call that has just returned
Succeeded(op) == last.op = op /\ last.ret # NULL

Transitions == {"divineMiracle", "divinePrayerResponse", "divineCompletion"}

\* every block universe u owned when the call was made is as it was
SourceUntouched(u) == \A a \in Range(BlocksOf(pre, u)) : mem[a] = pre[a]

\* s contains "guide me"
ContainsGuideMe(s) ==
    \E i \in 1..Len(s) : i + 7 <= Len(s) /\ SubSeq(s, i, i + 7) = GuideMe

\* x * 9/10 and x * 9/10 * 99/100
TimesNineTenths(x) == Rat(9 * x.n, 10 * x.d)
TimesNineTenthsGuided(x) == Rat(891 * x.n, 1000 * x.d)

\* C1: a successful divineMiracle(W) returns W' with entropyLevel =
\* W.entropyLevel * 0.9, with numConstants, the constants element for element,
\* creationTime, totalLifespanDays and maxEntropy equal to W's, and leaves
\* every field, constant and entity of W as it was.
C1_Intervene ==
    Succeeded("divineMiracle") =>
        LET W == pre[last.u]
            R == mem[last.ret]
        IN  /\ R.entropyLevel = TimesNineTenths(W.entropyLevel)
            /\ R.numConstants = W.numConstants
            /\ Len(mem[R.physicalConstants].data) = W.numConstants
            /\ \A i \in 1..W.numConstants :
                 mem[R.physicalConstants].data[i] = pre[W.physicalConstants].data[i]
            /\ R.creationTime = W.creationTime
            /\ R.totalLifespanDays = W.totalLifespanDays
            /\ R.maxEntropy = W.maxEntropy
            /\ SourceUntouched(last.u)

C1_Witness ==
    /\ Succeeded("divineMiracle")
    /\ pre[last.u].numEntities = 2
    /\ pre[last.u].entropyLevel # InitialEntropy

\* C2: a successful divinePrayerResponse(entity, m, W) returns W' with
\* totalLifespanDays = W's + 1 and entropyLevel = W's * 0.9 * 0.99 when m
\* contains "guide me", W's * 0.9 when it does not.
C2_Petition ==
    Succeeded("divinePrayerResponse") =>
        LET W == pre[last.u]
            R == mem[last.ret]
        IN  /\ R.totalLifespanDays = W.totalLifespanDays + 1
            /\ ContainsGuideMe(last.str.s)
                 => R.entropyLevel = TimesNineTenthsGuided(W.entropyLevel)
            /\ ~ContainsGuideMe(last.str.s)
                 => R.entropyLevel = TimesNineTenths(W.entropyLevel)

C2_Witness ==
    /\ Succeeded("divinePrayerResponse")
    /\ last.str = Str(PleaseGuideMe)
    /\ pre[last.u].entropyLevel # InitialEntropy

\* C3: a successful divineCompletion(W) returns W' with entropyLevel =
\* W'.maxEntropy and maxEntropy = W.maxEntropy, whatever W.entropyLevel is.
C3_Complete ==
    Succeeded("divineCompletion") =>
        /\ mem[last.ret].entropyLevel = mem[last.ret].maxEntropy
        /\ mem[last.ret].maxEntropy = pre[last.u].maxEntropy

C3_Witness ==
    /\ Succeeded("divineCompletion")
    /\ pre[last.u].entropyLevel # pre[last.u].maxEntropy
    /\ pre[last.u].entropyLevel # InitialEntropy

\* C4: the universe a successful transition returns has numEntities = 0 and
\* no entity array, and the source's count and entities are as they were.
C4_NoEntityCarryOver ==
    \A op \in Transitions :
        Succeeded(op) =>
            /\ mem[last.ret].numEntities = 0
            /\ mem[last.ret].consciousEntities = NULL
            /\ EntitiesOf(mem, last.ret) = <<>>
            /\ mem[last.u].numEntities = pre[last.u].numEntities
            /\ EntitiesOf(mem, last.u) = EntitiesOf(pre, last.u)
            /\ SourceUntouched(last.u)

C4_Witness ==
    /\ Succeeded("divineCompletion")
    /\ pre[last.u].numEntities = 2

Owned(h, u) == Range(BlocksOf(h, u))

\* C5: the universes the caller holds own disjoint sets of allocated blocks,
\* a transition's result shares no block with its source, an append to or a
\* release of one universe leaves every block of every other one as it was,
\* and free() is never handed a block that is not allocated.
C5_Independent ==
    /\ ~err
    /\ \A u \in universes : \A a \in Owned(mem, u) : Live(mem, a)
    /\ \A u1 \in universes : \A u2 \in universes \ {u1} :
         Owned(mem, u1) \cap Owned(mem, u2) = {}
    /\ \A op \in Transitions :
         Succeeded(op) => Owned(mem, last.ret) \cap Owned(pre, last.u) = {}
    /\ last.op \in {"createConsciousEntity", "freeUniverse"} =>
         \A w \in universes \ {last.u} :
             /\ Owned(mem, w) = Owned(pre, w)
             /\ \A a \in Owned(pre, w) : mem[a] = pre[a]

\* a universe with two entities has been released while the caller holds a
\* completed universe to which an entity was appended
C5_Witness ==
    /\ last.op = "freeUniverse"
    /\ last.u # NULL
    /\ pre[last.u].numEntities = 2
    /\ \E w \in universes :
         mem[w].entropyLevel = mem[w].maxEntropy /\ mem[w].numEntities = 1

\* an allocation of a transition with valid arguments failed
AllocationFailed ==
    /\ last.op \in Transitions
    /\ last.u # NULL
    /\ last.failAt \in 1..5
    /\ last.op = "divinePrayerResponse" => (last.ent # NULL /\ ~last.str.null)

\* C6: when an allocation of a transition fails, the call returns NULL, the
\* heap is as it was when the call was made (every block the call allocated
\* is released, the source is unmodified) and nothing was released twice.
C6_Rollback ==
    AllocationFailed => (last.ret = NULL /\ mem = pre /\ ~err)

C6_Witness ==
    /\ AllocationFailed
    /\ last.op = "divinePrayerResponse"
    /\ last.failAt = 5
    /\ pre[last.u].numEntities = 2

\* C7 (as stated): divinePrayerResponse returns NULL and allocates nothing
\* whenever u is NULL, pray_er is NULL, or prayer is NULL or empty.
C7_Original ==
    (/\ last.op = "divinePrayerResponse"
     /\ (last.u = NULL \/ last.ent = NULL \/ last.str.null \/ last.str.s = <<>>))
    => (last.ret = NULL /\ mem = pre)

\* C7 (amended): divinePrayerResponse returns NULL and allocates nothing
\* whenever u is NULL, pray_er is NULL or prayer is NULL; an empty prayer is
\* answered like any other prayer without "guide me".
C7_InvalidArgument ==
    /\ (/\ last.op = "divinePrayerResponse"
        /\ (last.u = NULL \/ last.ent = NULL \/ last.str.null))
       => (last.ret = NULL /\ mem = pre)
    /\ (/\ last.op = "divinePrayerResponse"
        /\ last.u # NULL /\ last.ent # NULL /\ last.str = Str(<<>>)
        /\ last.failAt = 0)
       => /\ last.ret # NULL
          /\ mem[last.ret].entropyLevel = TimesNineTenths(pre[last.u].entropyLevel)

C7_Witness ==
    /\ last.op = "divinePrayerResponse"
    /\ last.u # NULL
    /\ last.ent = NULL
    /\ last.str = Str(PleaseGuideMe)

\* C8: in every universe the entity at zero-based position i has id i + 1;
\* a successful append puts the new entity last with the next id, and the
\* earlier entities keep their position, their id and their blocks.
C8_SequentialIds ==
    /\ \A u \in universes : \A i \in 1..mem[u].numEntities :
         mem[EntitiesOf(mem, u)[i]].uniqueId = i
    /\ Succeeded("createConsciousEntity") =>
         LET n == pre[last.u].numEntities
         IN  /\ mem[last.u].numEntities = n + 1
             /\ EntitiesOf(mem, last.u)[n + 1] = last.ret
             /\ mem[last.ret].uniqueId = n + 1
             /\ SubSeq(EntitiesOf(mem, last.u), 1, n) = EntitiesOf(pre, last.u)
             /\ \A i \in 1..n :
                  \A a \in Range(EntityBlocks(pre, EntitiesOf(pre, last.u)[i])) :
                      mem[a] = pre[a]

\* the second entity has been appended and realloc moved the array
C8_Witness ==
    /\ Succeeded("createConsciousEntity")
    /\ mem[last.ret].uniqueId = 2
    /\ mem[last.u].consciousEntities # pre[last.u].consciousEntities

\* C9: when createConsciousEntity fails because the name has 256 characters
\* or more, or because one of its allocations (the realloc included) fails,
\* the heap is as it was when the call was made: same registry, same
\* entities, same fields, and every block the call allocated released.
C9_FailedAppend ==
    (/\ last.op = "createConsciousEntity"
     /\ \/ (~last.str.null /\ Len(last.str.s) >= 256)
        \/ last.failAt \in 1..5)
    => (last.ret = NULL /\ mem = pre /\ ~err)

\* realloc failed while growing a registry that holds an entity
C9_Witness ==
    /\ last.op = "createConsciousEntity"
    /\ last.failAt = 5
    /\ last.ret = NULL
    /\ pre[last.u].numEntities = 1

AllNames ==
    UNION {{mem[mem[EntitiesOf(mem, u)[i]].name].data : i \in 1..mem[u].numEntities}
           : u \in universes}

\* C10 (as stated): createConsciousEntity with an empty name returns NULL
\* and leaves the registry length unchanged; every entity of a universe has
\* a non-empty name.
C10_Original ==
    /\ (last.op = "createConsciousEntity" /\ last.str = Str(<<>>))
       => /\ last.ret = NULL
          /\ IF last.u = NULL THEN TRUE
             ELSE mem[last.u].numEntities = pre[last.u].numEntities
    /\ \A s \in AllNames : s # <<>>

\* C10 (amended): createConsciousEntity accepts an empty name: with a
\* creator and a universe and no allocation failure it returns the entity
\* and the registry grows by one; every entity of a universe has a name of
\* fewer than 256 characters.
C10_EmptyNameAccepted ==
    /\ (/\ last.op = "createConsciousEntity"
        /\ last.str = Str(<<>>)
        /\ last.creator /\ last.u # NULL /\ last.failAt = 0)
       => /\ last.ret # NULL
          /\ mem[last.u].numEntities = pre[last.u].numEntities + 1
          /\ mem[mem[last.ret].name].data = <<>>
    /\ \A s \in AllNames : Len(s) < 256

C10_Witness ==
    /\ Succeeded("createConsciousEntity")
    /\ last.str = Str(<<>>)
    /\ mem[last.u].numEntities = 2

\* calculateEndOfWorld has just returned for a Universe
Calculated == last.op = "calculateEndOfWorld" /\ last.u # NULL

\* x <= y for stored rationals
RatLeq(x, y) == x.n * y.d <= y.n * x.d

\* maxEntropy > 0, 0 <= entropyLevel <= maxEntropy, numEntities >= 0
WellFormed(blk) ==
    /\ blk.maxEntropy.n > 0
    /\ blk.entropyLevel.n >= 0
    /\ RatLeq(blk.entropyLevel, blk.maxEntropy)
    /\ blk.numEntities >= 0

\* C11: for a Universe with maxEntropy > 0, entropyLevel in [0, maxEntropy]
\* and numEntities >= 0, whatever its lifespan and constants,
\* calculateEndOfWorld returns r with 0 <= r <= LONG_MAX.
C11_Range ==
    (Calculated /\ WellFormed(mem[last.u])) => 0 <= last.ret /\ last.ret <= LONG_MAX

ReferenceConstants ==
    <<Dec(299, 792458, 0, 1), Dec(662, 607015, -42, 1), Dec(0, 667430, -16, 1),
      Dec(88541, 878128, -22, 1)>>

\* C13: divinePhysicalConstants(n) with n > 0 returns (when its allocation
\* succeeds) a block of exactly n doubles whose indices 0-3 below n hold the
\* four reference constants in order and whose every index i >= 4 holds
\* 1 / (i + 1); with n <= 0 it returns NULL and the heap is as it was.
C13_ConstantTable ==
    last.op = "divinePhysicalConstants" =>
        IF last.numConstants <= 0 \/ last.failAt # 0
        THEN last.ret = NULL /\ mem = pre
        ELSE /\ last.ret # NULL
             /\ ~Live(pre, last.ret)
             /\ \A a \in Addr \ {last.ret} : mem[a] = pre[a]
             /\ mem[last.ret].kind = "doubles"
             /\ Len(mem[last.ret].data) = last.numConstants
             /\ \A i \in 0..(last.numConstants - 1) :
                    IF i <= 3 THEN mem[last.ret].data[i + 1] = ReferenceConstants[i + 1]
                    ELSE FromDec(mem[last.ret].data[i + 1]) = DDiv(FromInt(1), FromInt(i + 1))

C13_Witness ==
    /\ last.op = "divinePhysicalConstants"
    /\ last.numConstants > 4
    /\ last.ret # NULL
    /\ Len(mem[last.ret].data) = last.numConstants

\* the universes main has constructed
Constructed ==
    {frame.universe, frame.updatedUniverse, frame.completedUniverse} \ {NULL}

\* C14: when main returns, on the successful path and on every early
\* exit, each universe it constructed has been passed to freeUniverse
\* exactly once, no block has been freed twice, and no block of a universe,
\* of its entities or of its constants (indeed no block at all) is left.
C14_ReleasedOnce ==
    frame.pc = "exit" =>
        /\ ~err
        /\ Range(frame.released) = Constructed
        /\ Len(frame.released) = Cardinality(Constructed)
        /\ universes = {}
        /\ LiveAddrs(mem) = {}

\* the exit taken when Complete fails: two universes constructed and released
C14_Witness ==
    /\ frame.pc = "exit"
    /\ frame.status = 1
    /\ frame.updatedUniverse # NULL
    /\ frame.completedUniverse = NULL
    /\ Len(frame.released) = 2

\* C15: in every universe the caller holds, reached from created ones
\* (entropyLevel 0.618, maxEntropy 1.0) by appends and by divineMiracle,
\* divinePrayerResponse and divineCompletion applied to any universe
\* obtained before, 0 <= entropyLevel <= maxEntropy and maxEntropy > 0.
C15_EntropyBounds ==
    \A u \in universes :
        /\ mem[u].maxEntropy.n > 0
        /\ mem[u].entropyLevel.n >= 0
        /\ RatLeq(mem[u].entropyLevel, mem[u].maxEntropy)

\* a miracle on a completed universe: entropy goes from maxEntropy to 0.9
C15_Witness ==
    /\ Succeeded("divineMiracle")
    /\ mem[last.u].entropyLevel = mem[last.u].maxEntropy
    /\ mem[last.ret].entropyLevel = MiracleFactor
    /\ last.ret \in universes

\* C16: calculateEndOfWorld applied to the universe divineCompletion has
\* just returned, before any entity is appended to it, returns exactly 0
\* at every clock reading, whatever the source's lifespan, creation time and
\* entities.
C16_CompletedIsZero ==
    Succeeded("divineCompletion") =>
        /\ EntropyRatio(mem[last.ret].entropyLevel, mem[last.ret].maxEntropy) = FromInt(1)
        /\ mem[last.ret].numEntities = 0
        /\ PhysicalInfluence(mem[mem[last.ret].physicalConstants].data,
                             mem[last.ret].numConstants).m >= 0
        /\ \A currentTime \in MainClockInputs :
                calculateEndOfWorld(mem, last.ret, currentTime) = {0}

\* Complete applied to a universe that holds entities and an extended
\* lifespan
C16_Witness ==
    /\ Succeeded("divineCompletion")
    /\ mem[last.u].numEntities > 0
    /\ mem[last.u].totalLifespanDays > INITIAL_LIFESPAN_DAYS
    /\ mem[last.ret].numEntities = 0
    /\ calculateEndOfWorld(mem, last.ret, 0) = {0}

====
